---------------------------- MODULE Spec2Model ----------------------------
(***************************************************************************)
(* A model of src/timestamp.rs (uuid crate, features v1/v6, std and rng    *)
(* enabled): the Timestamp value type with its Unix <-> RFC4122 tick       *)
(* arithmetic, the ClockSequence strategies NoContext and Context, and the *)
(* lazily seeded process-wide CONTEXT behind shared_context().             *)
(*                                                                         *)
(* u64 values are sequences of 16 hexadecimal digits, least significant    *)
(* digit first, so that the 64-bit width and its overflow are kept.  u16   *)
(* and u32 values are integers; u32 inputs are drawn below 2^31.           *)
(***************************************************************************)
EXTENDS Integers, Sequences, FiniteSets, TLC

VARIABLES
    count,          \* Context.count: the Atomic<u16> cell of the context in use
    initialized,    \* CONTEXT_INITIALIZED: Atomic<bool>
    pc,             \* per thread: "start", "seed", "ctx", "build"
    local,          \* per thread: the counter returned to from_unix, and its time arguments
    calls,          \* log of generate_sequence calls, in the order of their fetch_add
    stamps,         \* log of the Timestamps built by from_unix, in the order built
    clock,          \* index into Times of the (seconds, nanos) the callers pass
    usesShared,     \* TRUE: threads go through shared_context(); FALSE: a Context::new(seed)
    seed,           \* the argument of Context::new (0 for the static CONTEXT)
    seedLog,        \* log of the stores made by shared_context: <<thread, value>>
    casWinners,     \* threads whose compare_exchange in shared_context succeeded
    overflowChecks, \* build profile: TRUE panics on integer overflow, FALSE wraps
    tsIn,           \* arguments of the last Timestamp constructor call
    ts,             \* the Timestamp under conversion
    wire,           \* the last result of to_rfc4122
    step            \* "new", "built", "encoded", "decoded", "panicked"

vars == <<count, initialized, pc, local, calls, stamps, clock, usesShared, seed,
          seedLog, casWinners, overflowChecks, tsIn, ts, wire, step>>

ctxVars == <<count, initialized, pc, local, calls, stamps, clock, usesShared, seed,
             seedLog, casWinners>>

tsVars == <<overflowChecks, tsIn, ts, wire, step>>

-----------------------------------------------------------------------------
(* Bounds of the model *)

\* generate_sequence calls made in one behaviour
MaxCalls == 5
\* seeds are taken up to this far on both sides of each point where the
\* counter's output or its cell wraps
SeedSpan == 2
\* seconds and ticks inputs: offsets 0..InputSpan above each anchor
InputSpan == 1

-----------------------------------------------------------------------------
(* u64 arithmetic *)

RECURSIVE IntToDigits(_, _)
IntToDigits(n, k) ==
    IF k = 0 THEN <<>> ELSE <<n % 16>> \o IntToDigits(n \div 16, k - 1)

\* `n as u64`, for 0 <= n < 2^31
U64(n) == IntToDigits(n, 16)

\* a u64 literal written as 16 hexadecimal digits, most significant first
Hex(s) == [i \in 1..16 |-> s[17 - i]]

RECURSIVE AddDigits(_, _, _, _)
AddDigits(a, b, i, carry) ==
    IF i > 16 THEN <<carry>>
    ELSE LET s == a[i] + b[i] + carry
         IN  <<s % 16>> \o AddDigits(a, b, i + 1, s \div 16)

\* a + b on u64: the wrapped sum, and whether it overflowed
AddU64(a, b) ==
    LET r == AddDigits(a, b, 1, 0)
    IN  [val |-> SubSeq(r, 1, 16), overflow |-> r[17] # 0]

RECURSIVE SubDigits(_, _, _, _)
SubDigits(a, b, i, borrow) ==
    IF i > 16 THEN <<borrow>>
    ELSE LET d == a[i] - b[i] - borrow
         IN  <<d % 16>> \o SubDigits(a, b, i + 1, IF d < 0 THEN 1 ELSE 0)

\* a - b on u64: the wrapped difference, and whether it underflowed
SubU64(a, b) ==
    LET r == SubDigits(a, b, 1, 0)
    IN  [val |-> SubSeq(r, 1, 16), overflow |-> r[17] # 0]

RECURSIVE MulDigits(_, _, _, _)
MulDigits(a, m, i, carry) ==
    IF i > 16 THEN <<carry>>
    ELSE LET p == a[i] * m + carry
         IN  <<p % 16>> \o MulDigits(a, m, i + 1, p \div 16)

\* a * m on u64 for a small multiplier m: the wrapped product, and whether it overflowed
MulU64(a, m) ==
    LET r == MulDigits(a, m, 1, 0)
    IN  [val |-> SubSeq(r, 1, 16), overflow |-> r[17] # 0]

RECURSIVE RemFrom(_, _, _)
\* the remainder by m of the number made of digits i..16 of a
RemFrom(a, m, i) ==
    IF i > 16 THEN 0 ELSE (RemFrom(a, m, i + 1) * 16 + a[i]) % m

\* a / m on u64 for a small divisor m
DivU64(a, m) == [i \in 1..16 |-> (RemFrom(a, m, i + 1) * 16 + a[i]) \div m]

\* a % m on u64 for a small divisor m, as an integer
RemU64(a, m) == RemFrom(a, m, 1)

\* a <= b on u64
LeqU64(a, b) == ~SubU64(b, a).overflow

-----------------------------------------------------------------------------
(* Timestamp *)

UUID_TICKS_BETWEEN_EPOCHS == Hex(<<0,1,11,2, 1,13,13,2, 1,3,8,1, 4,0,0,0>>)

\* 100ns ticks in a second
TICKS_PER_SECOND == 10000000

\* nanoseconds in a tick
NANOS_PER_TICK == 100

Timestamp(seconds, nanos, counter) ==
    [seconds |-> seconds, nanos |-> nanos, counter |-> counter]

\* a variant that rounds the nanoseconds to the nearest tick instead of truncating
unix_to_rfc4122_ticks_rounding(seconds, nanos) ==
    LET prod == MulU64(seconds, TICKS_PER_SECOND)
        sum1 == AddU64(UUID_TICKS_BETWEEN_EPOCHS, prod.val)
        sum2 == AddU64(sum1.val, U64((nanos \div NANOS_PER_TICK)
                                     + (IF 2 * (nanos % NANOS_PER_TICK) >= NANOS_PER_TICK
                                        THEN 1 ELSE 0)))
    IN  [val |-> sum2.val,
         overflow |-> prod.overflow \/ sum1.overflow \/ sum2.overflow]

\* UUID_TICKS_BETWEEN_EPOCHS + seconds * 10_000_000 + nanos as u64 / 100
unix_to_rfc4122_ticks(seconds, nanos) ==
    LET prod == MulU64(seconds, TICKS_PER_SECOND)
        sum1 == AddU64(UUID_TICKS_BETWEEN_EPOCHS, prod.val)
        sum2 == AddU64(sum1.val, U64(nanos \div NANOS_PER_TICK))
    IN  [val |-> sum2.val,
         overflow |-> prod.overflow \/ sum1.overflow \/ sum2.overflow]

\* a variant that leaves the sub-second remainder in ticks
rfc4122_to_unix_unscaled(ticks) ==
    LET diff == SubU64(ticks, UUID_TICKS_BETWEEN_EPOCHS)
    IN  [seconds |-> DivU64(diff.val, TICKS_PER_SECOND),
         nanos |-> RemU64(diff.val, TICKS_PER_SECOND),
         overflow |-> diff.overflow]

\* ((ticks - EPOCHS) / 10_000_000, ((ticks - EPOCHS) % 10_000_000) as u32 * 100)
rfc4122_to_unix(ticks) ==
    LET diff == SubU64(ticks, UUID_TICKS_BETWEEN_EPOCHS)
    IN  [seconds |-> DivU64(diff.val, TICKS_PER_SECOND),
         nanos |-> RemU64(diff.val, TICKS_PER_SECOND) * NANOS_PER_TICK,
         overflow |-> diff.overflow]

from_rfc4122(ticks, counter) ==
    LET unix == rfc4122_to_unix(ticks)
    IN  [val |-> Timestamp(unix.seconds, unix.nanos, counter),
         overflow |-> unix.overflow]

to_rfc4122(self) ==
    LET ticks == unix_to_rfc4122_ticks(self.seconds, self.nanos)
    IN  [val |-> <<ticks.val, self.counter>>, overflow |-> ticks.overflow]

to_unix(self) == <<self.seconds, self.nanos>>

\* a variant that derives a counter from the time it is given
NoContext_generate_sequence_from_time(seconds, nanos) == (nanos % 2) + 1

\* NoContext::generate_sequence
NoContext_generate_sequence(seconds, nanos) == 0

\* from_unix / now, given the counter its context's generate_sequence returned
from_unix(counter, seconds, nanos) == Timestamp(seconds, nanos, counter)


-----------------------------------------------------------------------------
(* Timestamp conversions: inputs *)

SecondsAnchors ==
    { U64(0),
      U64(1496854535),
      \* the last second whose ticks fit a u64: 1_832_455_114_570
      Hex(<<0,0,0,0, 0,1,10,10, 10,6,13,6, 0,15,4,10>>),
      \* the last second whose product by 10_000_000 fits a u64: 1_844_674_407_370
      Hex(<<0,0,0,0, 0,1,10,13, 7,15,2,9, 10,11,12,10>>),
      \* u64::MAX - 1
      Hex(<<15,15,15,15, 15,15,15,15, 15,15,15,15, 15,15,15,14>>) }

SecondsInputs == { AddU64(a, U64(k)).val : a \in SecondsAnchors, k \in 0..InputSpan }

\* u32 values passed as nanos; those from 1_000_000_000 on are not sub-second values
NanosInputs ==
    { 0, 99, 250, 812946000, 955161599, 955161600, 999999999, 1000000000, 2147483647 }

\* Duration::subsec_nanos() is below 1_000_000_000
SubsecNanosInputs == { n \in NanosInputs : n < 1000000000 }

TicksAnchors ==
    { U64(0),
      SubU64(UUID_TICKS_BETWEEN_EPOCHS, U64(1)).val,
      AddU64(UUID_TICKS_BETWEEN_EPOCHS, U64(10000002)).val,
      Hex(<<0,1,14,12, 9,4,1,4, 12,2,3,2, 10,11,0,0>>),
      Hex(<<15,15,15,15, 15,15,15,15, 15,15,15,15, 15,15,15,14>>) }

TicksInputs == { AddU64(a, U64(k)).val : a \in TicksAnchors, k \in 0..InputSpan }

CounterInputs == { 0, 16383, 16384, 65535 }

NoInput == [kind |-> "none", seconds |-> U64(0), nanos |-> 0, ticks |-> U64(0), counter |-> 0]

NoWire == <<U64(0), 0>>

-----------------------------------------------------------------------------
(* Timestamp conversions: operations *)

\* Timestamp::from_unix(NoContext, seconds, nanos)
TsFromUnix(seconds, nanos) ==
    /\ step # "panicked"
    /\ tsIn' = [NoInput EXCEPT !.kind = "from_unix", !.seconds = seconds, !.nanos = nanos]
    /\ ts' = from_unix(NoContext_generate_sequence(seconds, nanos), seconds, nanos)
    /\ wire' = NoWire
    /\ step' = "built"
    /\ UNCHANGED <<overflowChecks>>
    /\ UNCHANGED ctxVars

\* Timestamp::now(NoContext) with the clock at or after the Unix epoch
TsNow(seconds, nanos) ==
    /\ step # "panicked"
    /\ tsIn' = [NoInput EXCEPT !.kind = "now", !.seconds = seconds, !.nanos = nanos]
    /\ ts' = from_unix(NoContext_generate_sequence(seconds, nanos), seconds, nanos)
    /\ wire' = NoWire
    /\ step' = "built"
    /\ UNCHANGED <<overflowChecks>>
    /\ UNCHANGED ctxVars

\* Timestamp::now(NoContext) with the clock before the Unix epoch: elapsed() is Err, expect panics
TsNowBeforeEpoch ==
    /\ step # "panicked"
    /\ tsIn' = [NoInput EXCEPT !.kind = "now"]
    /\ step' = "panicked"
    /\ UNCHANGED <<overflowChecks, ts, wire>>
    /\ UNCHANGED ctxVars

\* Timestamp::from_rfc4122(ticks, counter)
TsFromRfc4122(ticks, counter) ==
    /\ step # "panicked"
    /\ tsIn' = [NoInput EXCEPT !.kind = "from_rfc4122", !.ticks = ticks, !.counter = counter]
    /\ wire' = NoWire
    /\ LET r == from_rfc4122(ticks, counter)
       IN  IF r.overflow /\ overflowChecks
           THEN step' = "panicked" /\ UNCHANGED ts
           ELSE step' = "built" /\ ts' = r.val
    /\ UNCHANGED <<overflowChecks>>
    /\ UNCHANGED ctxVars

\* ts.to_rfc4122()
TsToRfc4122 ==
    /\ step = "built"
    /\ LET r == to_rfc4122(ts)
       IN  IF r.overflow /\ overflowChecks
           THEN step' = "panicked" /\ UNCHANGED wire
           ELSE step' = "encoded" /\ wire' = r.val
    /\ UNCHANGED <<overflowChecks, tsIn, ts>>
    /\ UNCHANGED ctxVars

\* Timestamp::from_rfc4122 applied to the (ticks, counter) that to_rfc4122 returned
TsDecode ==
    /\ step = "encoded"
    /\ LET r == from_rfc4122(wire[1], wire[2])
       IN  IF r.overflow /\ overflowChecks
           THEN step' = "panicked" /\ UNCHANGED ts
           ELSE step' = "decoded" /\ ts' = r.val
    /\ UNCHANGED <<overflowChecks, tsIn, wire>>
    /\ UNCHANGED ctxVars

-----------------------------------------------------------------------------
(* ClockSequence: Context and the process-wide CONTEXT *)

Threads == {1, 2}

MainThread == CHOOSE t \in Threads : \A u \in Threads : t <= u

\* u16::MAX
U16_MAX == 65535

\* the number of values of a u16: Atomic<u16> arithmetic wraps at it
U16_RANGE == 65536

\* a variant that keeps all 16 bits
SequenceModulus_unshifted == U16_MAX

\* u16::MAX >> 2
SequenceModulus == U16_MAX \div (2 ^ 2)

\* a variant that returns the sum instead of the previous value
fetch_add_returns_new(cell, n) ==
    [prev |-> (cell + n) % U16_RANGE, new |-> (cell + n) % U16_RANGE]

\* a variant whose sum saturates at u16::MAX instead of wrapping
fetch_add_saturating(cell, n) ==
    [prev |-> cell, new |-> IF cell + n > U16_MAX THEN U16_MAX ELSE cell + n]

\* Atomic<u16>::fetch_add(n): the previous value is returned, the wrapped sum stored
fetch_add(cell, n) == [prev |-> cell, new |-> (cell + n) % U16_RANGE]

\* a variant that reports success whatever the cell holds
compare_exchange_always_ok(cell, expected, new) == [ok |-> TRUE, new |-> new]

\* Atomic<bool>::compare_exchange(expected, new)
compare_exchange(cell, expected, new) ==
    [ok |-> cell = expected, new |-> IF cell = expected THEN new ELSE cell]

\* Context::generate_sequence on a cell holding `cell`
Context_generate_sequence(cell) ==
    LET f == fetch_add(cell, 1)
    IN  [ret |-> f.prev % SequenceModulus, pre |-> f.prev, count |-> f.new]

\* Context::new(count)
Context_new(c) == c

\* the (seconds, nanos) the callers read from their clock
Times == << <<U64(1496854535), 812946000>>, <<U64(1496854536), 812946000>> >>

\* the points of 0..65536 where the output (multiples of 16383) or the cell (65536) wraps
WrapPoints == { k * SequenceModulus : k \in 0..4 } \cup { U16_RANGE }

\* u16 values used as seeds: those within SeedSpan of a wrap point
Seeds == { s \in 0..U16_MAX : \E w \in WrapPoints : s >= w - SeedSpan /\ s <= w + SeedSpan }

NoLocal == [counter |-> 0, time |-> 1, call |-> 0]

\* shared_context(), line 191: the compare_exchange on CONTEXT_INITIALIZED
SharedContextCas(t) ==
    /\ pc[t] = "start"
    /\ Len(calls) < MaxCalls
    /\ LET r == compare_exchange(initialized, FALSE, TRUE)
       IN  /\ initialized' = r.new
           /\ pc' = [pc EXCEPT ![t] = IF r.ok THEN "seed" ELSE "ctx"]
           /\ casWinners' = IF r.ok THEN casWinners \cup {t} ELSE casWinners
    /\ UNCHANGED <<count, local, calls, stamps, clock, usesShared, seed, seedLog>>
    /\ UNCHANGED tsVars

\* shared_context(), line 195: CONTEXT.count.store(rng::u16()), then &CONTEXT is returned
SharedContextStore(t, random) ==
    /\ pc[t] = "seed"
    /\ count' = random
    /\ seedLog' = Append(seedLog, [thread |-> t, value |-> random, after |-> Len(calls)])
    /\ pc' = [pc EXCEPT ![t] = "ctx"]
    /\ UNCHANGED <<initialized, local, calls, stamps, clock, usesShared, seed, casWinners>>
    /\ UNCHANGED tsVars

\* from_unix(&context, seconds, nanos), line 77: context.generate_sequence(seconds, nanos)
GenerateSequence(t) ==
    /\ pc[t] = "ctx"
    /\ Len(calls) < MaxCalls
    /\ LET r == Context_generate_sequence(count)
       IN  /\ count' = r.count
           /\ calls' = Append(calls, [thread |-> t, pre |-> r.pre, ret |-> r.ret,
                                      seeded |-> (~usesShared \/ Len(seedLog) > 0)])
           /\ local' = [local EXCEPT ![t] =
                           [counter |-> r.ret, time |-> clock, call |-> Len(calls) + 1]]
    /\ pc' = [pc EXCEPT ![t] = "build"]
    /\ UNCHANGED <<initialized, stamps, clock, usesShared, seed, seedLog, casWinners>>
    /\ UNCHANGED tsVars

\* from_unix(&context, seconds, nanos), lines 79-83: the Timestamp is built
FromUnixBuild(t) ==
    /\ pc[t] = "build"
    /\ stamps' = Append(stamps,
                    [call |-> local[t].call,
                     ts |-> from_unix(local[t].counter,
                                      Times[local[t].time][1], Times[local[t].time][2])])
    /\ pc' = [pc EXCEPT ![t] = IF usesShared THEN "start" ELSE "ctx"]
    /\ UNCHANGED <<count, initialized, local, calls, clock, usesShared, seed, seedLog,
                   casWinners>>
    /\ UNCHANGED tsVars

\* the callers' clock moves on to its next reading
ClockTick ==
    /\ clock < Len(Times)
    /\ clock' = clock + 1
    /\ UNCHANGED <<count, initialized, pc, local, calls, stamps, usesShared, seed, seedLog,
                   casWinners>>
    /\ UNCHANGED tsVars

-----------------------------------------------------------------------------
(* Specifications *)

TsIdle ==
    /\ overflowChecks = FALSE
    /\ tsIn = NoInput
    /\ ts = Timestamp(U64(0), 0, 0)
    /\ wire = NoWire
    /\ step = "new"

CtxIdle ==
    /\ count = 0
    /\ initialized = FALSE
    /\ pc = [t \in Threads |-> "start"]
    /\ local = [t \in Threads |-> NoLocal]
    /\ calls = <<>>
    /\ stamps = <<>>
    /\ clock = 1
    /\ usesShared = FALSE
    /\ seed = 0
    /\ seedLog = <<>>
    /\ casWinners = {}

\* the Timestamp conversions, in a build with and in one without overflow checks
InitTs ==
    /\ CtxIdle
    /\ overflowChecks \in BOOLEAN
    /\ tsIn = NoInput
    /\ ts = Timestamp(U64(0), 0, 0)
    /\ wire = NoWire
    /\ step = "new"

NextTs ==
    \/ \E seconds \in SecondsInputs, nanos \in NanosInputs : TsFromUnix(seconds, nanos)
    \/ \E seconds \in SecondsInputs, nanos \in SubsecNanosInputs : TsNow(seconds, nanos)
    \/ TsNowBeforeEpoch
    \/ \E ticks \in TicksInputs, counter \in CounterInputs : TsFromRfc4122(ticks, counter)
    \/ TsToRfc4122
    \/ TsDecode

SpecTs == InitTs /\ [][NextTs]_vars

\* threads sharing one Context::new(seed)
InitCtx ==
    /\ TsIdle
    /\ seed \in Seeds
    /\ count = Context_new(seed)
    /\ initialized = FALSE
    /\ pc = [t \in Threads |-> "ctx"]
    /\ local = [t \in Threads |-> NoLocal]
    /\ calls = <<>>
    /\ stamps = <<>>
    /\ clock = 1
    /\ usesShared = FALSE
    /\ seedLog = <<>>
    /\ casWinners = {}

NextCtx ==
    \/ \E t \in Threads : GenerateSequence(t)
    \/ \E t \in Threads : FromUnixBuild(t)
    \/ ClockTick

SpecCtx == InitCtx /\ [][NextCtx]_vars

\* one thread calling from_unix in a row on a Context::new(seed), for every u16 seed,
\* with the same (seconds, nanos) in every call
InitSeq ==
    /\ TsIdle
    /\ seed \in 0..U16_MAX
    /\ count = Context_new(seed)
    /\ initialized = FALSE
    /\ pc = [t \in Threads |-> "ctx"]
    /\ local = [t \in Threads |-> NoLocal]
    /\ calls = <<>>
    /\ stamps = <<>>
    /\ clock = 1
    /\ usesShared = FALSE
    /\ seedLog = <<>>
    /\ casWinners = {}

NextSeq ==
    \/ GenerateSequence(MainThread)
    \/ FromUnixBuild(MainThread)

SpecSeq == InitSeq /\ [][NextSeq]_vars

\* threads using the static CONTEXT through shared_context()
InitShared ==
    /\ TsIdle
    /\ seed = 0
    /\ count = 0
    /\ initialized = FALSE
    /\ pc = [t \in Threads |-> "start"]
    /\ local = [t \in Threads |-> NoLocal]
    /\ calls = <<>>
    /\ stamps = <<>>
    /\ clock = 1
    /\ usesShared = TRUE
    /\ seedLog = <<>>
    /\ casWinners = {}

NextShared ==
    \/ \E t \in Threads : SharedContextCas(t)
    \/ \E t \in Threads, random \in Seeds : SharedContextStore(t, random)
    \/ \E t \in Threads : GenerateSequence(t)
    \/ \E t \in Threads : FromUnixBuild(t)
    \/ ClockTick

SpecShared == InitShared /\ [][NextShared]_vars

-----------------------------------------------------------------------------
(* Properties of Context (SpecSeq, SpecCtx) *)

\* every generate_sequence call so far was made by one and the same thread
SingleThread == \A k \in 1..Len(calls) : calls[k].thread = calls[1].thread

\* C1, as stated: called N times in a row from a single thread on Context::new(S),
\* generate_sequence returns (S+1) mod 16383, (S+2) mod 16383, ..., (S+N) mod 16383.
C1_SequenceStartsAfterSeed ==
    SingleThread =>
        \A k \in 1..Len(calls) : calls[k].ret = (seed + k) % 16383

\* C1, amended: called N times in a row from a single thread on Context::new(S),
\* the k-th call returns ((S + k - 1) mod 65536) mod 16383: the first call returns
\* S mod 16383, the value the cell held, and the cell wraps at 65536.
C1_SequenceStartsAtSeed ==
    SingleThread =>
        \A k \in 1..Len(calls) : calls[k].ret = ((seed + k - 1) % 65536) % 16383

\* three calls in a row by one thread from seed 16382, across the modulus
C1_Witness ==
    /\ SingleThread
    /\ seed = 16382
    /\ Len(calls) = 3
    /\ calls[3].ret = 1

\* C2: the values returned by any 16383 or fewer calls on one shared Context are
\* pairwise distinct, whatever the seed and the interleaving.
C2_DistinctWithinPeriod ==
    Len(calls) <= 16383 =>
        \A i, j \in 1..Len(calls) : i < j => calls[i].ret # calls[j].ret

\* C4: every value generate_sequence returns, and so every counter from_unix stores,
\* is below 16384, for every seed, past the wrap of the cell, under any interleaving.
C4_OutputFits14Bits ==
    /\ \A k \in 1..Len(calls) : calls[k].ret < 16384
    /\ \A k \in 1..Len(stamps) : stamps[k].ts.counter < 16384

\* both threads have called, and a call was made past the wrap of the 16-bit cell
C4_Witness ==
    /\ \E i, j \in 1..Len(calls) : calls[i].thread # calls[j].thread
    /\ \E k \in 1..Len(calls) : calls[k].pre = 65535 /\ k < Len(calls)
    /\ \E k \in 1..Len(stamps) : calls[stamps[k].call].pre = 0

\* C10: each call advances the cell by exactly one whatever the time arguments, two
\* consecutive generate_sequence results differ, and two Timestamps built by
\* consecutive from_unix calls with identical (seconds, nanos) are never equal.
C10_ConsecutiveStampsDiffer ==
    /\ \A k \in 1..(Len(calls) - 1) :
          /\ calls[k + 1].pre = (calls[k].pre + 1) % 65536
          /\ calls[k + 1].ret # calls[k].ret
    /\ \A a, b \in 1..Len(stamps) :
          (/\ stamps[b].call = stamps[a].call + 1
           /\ to_unix(stamps[a].ts) = to_unix(stamps[b].ts))
          => stamps[a].ts # stamps[b].ts

\* two Timestamps of the same instant built on both sides of the cell's wrap
C10_Witness ==
    \E a, b \in 1..Len(stamps) :
        /\ stamps[b].call = stamps[a].call + 1
        /\ to_unix(stamps[a].ts) = to_unix(stamps[b].ts)
        /\ calls[stamps[a].call].pre = 65535
        /\ calls[stamps[b].call].pre = 0

-----------------------------------------------------------------------------
(* Properties of shared_context (SpecShared) *)

\* C6: the seed store is executed at most once, by the one thread whose
\* compare_exchange succeeded, and the flag stays true once a thread has won.
C6_SeededExactlyOnce ==
    /\ Len(seedLog) <= 1
    /\ Cardinality(casWinners) <= 1
    /\ \A k \in 1..Len(seedLog) : seedLog[k].thread \in casWinners
    /\ casWinners # {} => initialized
    /\ \A t \in Threads : pc[t] = "seed" => t \in casWinners /\ seedLog = <<>>
    /\ initialized => casWinners # {}

\* the seed is stored, and a thread that lost the compare_exchange holds the context
C6_Witness ==
    /\ Len(seedLog) = 1
    /\ \E t \in Threads : t \notin casWinners /\ pc[t] = "build"
    /\ \E t \in casWinners : pc[t] = "start" /\ Len(stamps) > 0

\* C7: each call observes a distinct pre-modulo value, one more than the call
\* before it; no fetch_add reads the cell before the seed is stored, and the seed
\* store never overwrites an increment.
C7_DistinctIncreasingFromSeed ==
    /\ \A k \in 1..Len(calls) : calls[k].seeded
    /\ \A k \in 1..Len(seedLog) : seedLog[k].after = 0
    /\ \A i, j \in 1..Len(calls) : i < j => calls[i].pre # calls[j].pre
    /\ \A k \in 1..(Len(calls) - 1) : calls[k + 1].pre = (calls[k].pre + 1) % 65536

-----------------------------------------------------------------------------
(* Properties of the Timestamp conversions (SpecTs) *)

\* UUID_TICKS_BETWEEN_EPOCHS + seconds * 10_000_000 + nanos / 100 <= u64::MAX:
\* seconds below 1_832_455_114_570, or equal to it with nanos / 100 <= 9_551_615
TicksFit(seconds, nanos) ==
    LET last == Hex(<<0,0,0,0, 0,1,10,10, 10,6,13,6, 0,15,4,10>>)
    IN  /\ LeqU64(seconds, last)
        /\ seconds = last => nanos \div 100 <= 9551615

\* a from_unix Timestamp of a sub-second nanos value went through to_rfc4122
RoundTripEnded ==
    /\ tsIn.kind = "from_unix"
    /\ tsIn.nanos < 1000000000
    /\ step \in {"decoded", "panicked"}

RoundTripTruncated ==
    /\ step = "decoded"
    /\ to_unix(ts) = <<tsIn.seconds, tsIn.nanos - (tsIn.nanos % 100)>>

\* C3, as stated: for all seconds: u64 and nanos < 1_000_000_000, to_rfc4122 followed
\* by from_rfc4122 yields to_unix() = (seconds, nanos - (nanos mod 100)).
C3_RoundTripAllSeconds == RoundTripEnded => RoundTripTruncated

\* C3, amended: the same, for the seconds and nanos whose ticks fit a u64.
C3_RoundTripWhereTicksFit ==
    (RoundTripEnded /\ TicksFit(tsIn.seconds, tsIn.nanos)) => RoundTripTruncated

\* (1, 250) went through the round trip and came back as (1, 200)
C3_Witness ==
    /\ step = "decoded"
    /\ tsIn.kind = "from_unix"
    /\ tsIn.seconds = U64(1)
    /\ tsIn.nanos = 250
    /\ to_unix(ts) = <<U64(1), 200>>

\* C5: every Timestamp a constructor produced (from_unix with any arguments,
\* from_rfc4122 with ticks at or after the Unix epoch, now) has nanos < 1_000_000_000.
C5_NanosBelowOneSecond ==
    (/\ step \in {"built", "encoded", "decoded"}
     /\ tsIn.kind = "from_rfc4122" => LeqU64(UUID_TICKS_BETWEEN_EPOCHS, tsIn.ticks))
    => (ts.nanos >= 0 /\ ts.nanos < 1000000000)

\* C8: for ticks >= 0x01B21DD213814000 and any counter,
\* from_rfc4122(ticks, counter).to_rfc4122() = (ticks, counter); the epoch constant
\* is Unix (0, 0) in both directions.
C8_Rfc4122RoundTrip ==
    /\ (/\ tsIn.kind = "from_rfc4122"
        /\ LeqU64(UUID_TICKS_BETWEEN_EPOCHS, tsIn.ticks)
        /\ step \in {"encoded", "panicked"})
       => (step = "encoded" /\ wire = <<tsIn.ticks, tsIn.counter>>)
    /\ (/\ tsIn.kind = "from_rfc4122"
        /\ tsIn.ticks = UUID_TICKS_BETWEEN_EPOCHS
        /\ step = "built")
       => to_unix(ts) = <<U64(0), 0>>
    /\ (/\ tsIn.kind = "from_unix"
        /\ to_unix(ts) = <<U64(0), 0>>
        /\ step = "encoded")
       => wire[1] = UUID_TICKS_BETWEEN_EPOCHS

\* ticks with a sub-second part and a counter of 16384 came back from to_rfc4122
C8_Witness ==
    /\ step = "encoded"
    /\ tsIn.kind = "from_rfc4122"
    /\ tsIn.counter = 16384
    /\ ts.nanos = 200
    /\ wire = <<tsIn.ticks, 16384>>

\* C9: a Timestamp built by from_unix(NoContext, seconds, nanos) has counter 0 and
\* to_unix() = (seconds, nanos), whatever was built before it.
C9_NoContextCounterZero ==
    (tsIn.kind = "from_unix" /\ step = "built")
    => (ts.counter = 0 /\ to_unix(ts) = <<tsIn.seconds, tsIn.nanos>>)

\* from_unix(NoContext, ..) was called on a Timestamp that came out of a round trip
C9_Witness ==
    /\ tsIn.kind = "from_unix"
    /\ step = "built"
    /\ tsIn.nanos = 999999999
    /\ ts.counter = 0

=============================================================================
